---- MODULE Spec2Model ----
(***************************************************************************)
(* A model of gowsoos: the per-connection orchestration of                 *)
(* internal/proxy (HandleConnection, performHandshake, discardPayload,     *)
(* streamConnections, byteCounter), the metrics collector of               *)
(* internal/metrics, the listener lifecycle of internal/server (Start,     *)
(* Stop, Wait, startHTTPServer, startTLSServer) and the signal handling of *)
(* cmd.runProxy.                                                           *)
(*                                                                         *)
(* Every goroutine is a program counter; every action is one step of one   *)
(* goroutine between two points at which another goroutine can observe it. *)
(* The peers (clients, the backend, the operating system) are the          *)
(* environment: what they send, when they close and which calls fail is    *)
(* chosen nondeterministically.                                            *)
(***************************************************************************)
EXTENDS Integers, Sequences, FiniteSets, TLC

(***************************************************************************)
(* Bounds of the model.                                                    *)
(***************************************************************************)
\* session slots
MaxConns == 2
\* connections the two listeners accept in one run of the whole program
MaxAccepts == 1
\* bytes a peer hands over in one Read
MaxChunk == 2
\* bytes a client sends after discardMin bytes, and bytes the backend sends,
\* when HandleConnection is exercised on its own (ConnSpec)
MaxClientExtra == 2
MaxBackendBytes == 2
\* the same for the connections the listeners accept (Spec)
SrvClientExtra == 0
SrvBackendBytes == 1

(***************************************************************************)
(* Program constants.                                                      *)
(***************************************************************************)
\* discardPayload: io.ReadAtLeast(conn, buffer, 5)
discardMin == 5
\* defaultReadBufferSize = 32 * 1024
defaultReadBufferSize == 32768
\* errChan := make(chan error, 2) in streamConnections
relayChanCap == 2
\* serverErrChan := make(chan error, 2) in Start
serverErrChanCap == 2

defaultHandshakeStatus == "101 Switching Protocols"
\* base64(sha1("Y2FmcnQ2NTRlY2Z2Z3ludTg=" + webSocketMagicString))
secWebSocketAccept == "SjHtBVMgyBRvoUUIjz1rGj0nK0g="

Conns == 1..MaxConns
\* the two copy tasks of streamConnections(src = destConn, dst = clientConn)
Dirs == {"src_to_dst", "dst_to_src"}

Min(a, b) == IF a < b THEN a ELSE b

\* the bytes a client sends: c1, c2, ...; the bytes the backend sends: b1, ...
ClientByte(i) == "c" \o ToString(i)
BackendByte(i) == "b" \o ToString(i)
ClientStream(n) == [i \in 1..n |-> ClientByte(i)]
BackendStream(n) == [i \in 1..n |-> BackendByte(i)]

IsPrefix(s, t) == Len(s) <= Len(t) /\ SubSeq(t, 1, Len(s)) = s

VARIABLES
    cfg,        \* config.Config: the fields the core reads
    conn,       \* the sessions: one record per accepted connection
    nextConn,   \* the id the next accepted connection gets
    metrics,    \* the package-level collectors of internal/metrics
    ctxDone,    \* Server.ctx is cancelled
    wg,         \* Server.wg: the WaitGroup's counter
    serverErrChan, \* the channel Start's listener goroutines report on
    lis,        \* the two primary listeners and their goroutines
    metricsSrv, \* the goroutine running StartMetricsServer
    watcher,    \* Start's goroutine that receives from serverErrChan
    main,       \* runProxy
    sig,        \* runProxy's goroutine that receives from sigChan
    mainCtxDone \* runProxy's ctx is cancelled

connVars == <<conn, nextConn, metrics>>
srvVars == <<ctxDone, wg, serverErrChan, lis, metricsSrv, watcher, main, sig,
             mainCtxDone>>
vars == <<cfg, conn, nextConn, metrics, ctxDone, wg, serverErrChan, lis,
          metricsSrv, watcher, main, sig, mainCtxDone>>

(***************************************************************************)
(* internal/metrics: the recording interface.  Each operator takes the     *)
(* collectors and returns them after the call.                             *)
(***************************************************************************)
ConnTypes == {"http", "tls"}
Statuses == {"success", "failed"}
ErrorTypes == {"handshake", "destination", "payload"}
DurationTypes == {"http", "tls", "tls-stunnel"}

NewMetrics ==
    [connectionsTotal  |-> [k \in ConnTypes \X Statuses |-> 0],
     connectionsActive |-> 0,
     bytesTransferred  |-> [d \in Dirs |-> 0],
     connectionDuration |-> [t \in DurationTypes |-> 0],
     errorsTotal       |-> [e \in ErrorTypes |-> 0]]

\* RecordConnection that counts every connection as a success
RecordConnection_AlwaysSuccess(m, connType, status) ==
    IF ~cfg.MetricsEnabled THEN m
    ELSE [m EXCEPT !.connectionsTotal[<<connType, "success">>] = @ + 1,
                   !.connectionsActive = @ + 1]

RecordConnection(m, connType, status) ==
    IF ~cfg.MetricsEnabled THEN m
    ELSE [m EXCEPT !.connectionsTotal[<<connType, status>>] = @ + 1,
                   !.connectionsActive = @ + 1]

\* RecordConnectionClosed without the test of m.enabled
RecordConnectionClosed_Always(m) ==
    [m EXCEPT !.connectionsActive = @ - 1]

RecordConnectionClosed(m) ==
    IF ~cfg.MetricsEnabled THEN m
    ELSE [m EXCEPT !.connectionsActive = @ - 1]

RecordBytesTransferred(m, direction, bytes) ==
    IF ~cfg.MetricsEnabled THEN m
    ELSE [m EXCEPT !.bytesTransferred[direction] = @ + bytes]

RecordConnectionDuration(m, connType) ==
    IF ~cfg.MetricsEnabled THEN m
    ELSE [m EXCEPT !.connectionDuration[connType] = @ + 1]

\* RecordError that counts nothing
RecordError_Nothing(m, errorType) == m

RecordError(m, errorType) ==
    IF ~cfg.MetricsEnabled THEN m
    ELSE [m EXCEPT !.errorsTotal[errorType] = @ + 1]

(***************************************************************************)
(* internal/proxy.                                                         *)
(***************************************************************************)
\* HandshakeResponse with another reason phrase after a custom code
HandshakeResponse_OK(code) ==
    IF code # ""
    THEN "HTTP/1.1 " \o code \o " OK\r\n\r\n"
    ELSE "HTTP/1.1 " \o defaultHandshakeStatus \o "\r\n"
         \o "Upgrade: websocket\r\n"
         \o "Connection: Upgrade\r\n"
         \o "Sec-WebSocket-Accept: " \o secWebSocketAccept \o "\r\n\r\n"

\* what performHandshake writes for a configured handshake code
HandshakeResponse(code) ==
    IF code # ""
    THEN "HTTP/1.1 " \o code \o " Ok\r\n\r\n"
    ELSE "HTTP/1.1 " \o defaultHandshakeStatus \o "\r\n"
         \o "Upgrade: websocket\r\n"
         \o "Connection: Upgrade\r\n"
         \o "Sec-WebSocket-Accept: " \o secWebSocketAccept \o "\r\n\r\n"

connType(c) == IF conn[c].isTLS THEN "tls" ELSE "http"

\* a copy task before streamConnections has started it
NoCopy == [pc |-> "none", buf |-> <<>>, rd |-> <<>>, res |-> "none"]

\* a session slot before a listener has accepted a connection into it
FreeConn ==
    [pc |-> "free", isTLS |-> FALSE,
     clientSock |-> "none", destSock |-> "none",
     clientIn |-> <<>>, backendIn |-> <<>>,
     discarded |-> <<>>, toBackend |-> <<>>, toClient |-> <<>>,
     cp |-> [d \in Dirs |-> NoCopy], errChan |-> <<>>, ev |-> <<>>]

\* what a client is going to send at most: the initial payload that
\* discardPayload expects, of discardMin bytes, and extra bytes after it; a
\* client of the TLS listener in stunnel mode sends no initial payload
ClientSends(tls, extra) ==
    IF tls /\ cfg.TLSMode = "stunnel"
    THEN ClientStream(extra)
    ELSE ClientStream(discardMin + extra)

\* the session of a connection that has just been accepted; extra and back
\* bound what its peers are going to send
NewSession(tls, pc, extra, back) ==
    [FreeConn EXCEPT !.pc = pc, !.isTLS = tls, !.clientSock = "open",
                     !.clientIn = ClientSends(tls, extra),
                     !.backendIn = BackendStream(back)]

AcceptedConn(tls, pc) == NewSession(tls, pc, SrvClientExtra, SrvBackendBytes)

\* DeferPc without the deferred destConn.Close()
DeferPc_ClientOnly(c) == "closeClient"

\* HandleConnection's deferred calls run in reverse order: destConn.Close()
\* (if the dial succeeded), then the func that calls clientConn.Close() and
\* RecordConnectionClosed().
DeferPc(c) == IF conn[c].destSock = "none" THEN "closeClient" ELSE "closeDest"

\* HandshakeOk with an answer made from what the client sent first
HandshakeOk_FromClient(c) ==
    /\ conn[c].pc = "handshake"
    /\ conn' = [conn EXCEPT
                  ![c].toClient = Append(@, HandshakeResponse(cfg.HandshakeCode)
                      \o (IF conn[c].clientIn = <<>> THEN "" ELSE Head(conn[c].clientIn))),
                  ![c].ev = Append(@, "handshake"),
                  ![c].pc = "dial"]
    /\ UNCHANGED <<nextConn, metrics, cfg, srvVars>>

\* performHandshake: one Write of the handshake response, which succeeds ...
HandshakeOk(c) ==
    /\ conn[c].pc = "handshake"
    /\ conn' = [conn EXCEPT
                  ![c].toClient = Append(@, HandshakeResponse(cfg.HandshakeCode)),
                  ![c].ev = Append(@, "handshake"),
                  ![c].pc = "dial"]
    /\ UNCHANGED <<nextConn, metrics, cfg, srvVars>>

\* HandshakeFail with the error ignored: HandleConnection goes on to dial
HandshakeFail_GoesOn(c) ==
    /\ conn[c].pc = "handshake"
    /\ metrics' = RecordConnection(RecordError(metrics, "handshake"),
                                   connType(c), "failed")
    /\ conn' = [conn EXCEPT
                  ![c].ev = @ \o <<"handshake_failed", "RecordError:handshake",
                                   "RecordConnection:failed">>,
                  ![c].pc = "dial"]
    /\ UNCHANGED <<nextConn, cfg, srvVars>>

\* ... or fails: RecordError("handshake"), RecordConnection(connType, "failed")
HandshakeFail(c) ==
    /\ conn[c].pc = "handshake"
    /\ metrics' = RecordConnection(RecordError(metrics, "handshake"),
                                   connType(c), "failed")
    /\ conn' = [conn EXCEPT
                  ![c].ev = @ \o <<"handshake_failed", "RecordError:handshake",
                                   "RecordConnection:failed">>,
                  ![c].pc = "closeClient"]
    /\ UNCHANGED <<nextConn, cfg, srvVars>>

\* AfterDialPc with the origin of the connection left out of the test
AfterDialPc_ModeOnly(c) ==
    IF cfg.TLSMode = "stunnel" THEN "stream" ELSE "discard"

\* where HandleConnection goes after RecordConnection(connType, "success")
AfterDialPc(c) ==
    IF conn[c].isTLS /\ cfg.TLSMode = "stunnel" THEN "stream" ELSE "discard"

\* net.DialTimeout succeeds: defer destConn.Close(), RecordConnection success
DialOk(c) ==
    /\ conn[c].pc = "dial"
    /\ metrics' = RecordConnection(metrics, connType(c), "success")
    /\ conn' = [conn EXCEPT
                  ![c].destSock = "open",
                  ![c].ev = @ \o <<"dial", "RecordConnection:success">>,
                  ![c].pc = AfterDialPc(c)]
    /\ UNCHANGED <<nextConn, cfg, srvVars>>

\* DialFail without the RecordConnection(connType, "failed")
DialFail_NoRecord(c) ==
    /\ conn[c].pc = "dial"
    /\ metrics' = RecordError(metrics, "destination")
    /\ conn' = [conn EXCEPT
                  ![c].ev = @ \o <<"dial_failed", "RecordError:destination">>,
                  ![c].pc = "closeClient"]
    /\ UNCHANGED <<nextConn, cfg, srvVars>>

\* net.DialTimeout fails: RecordError("destination"), RecordConnection failed
DialFail(c) ==
    /\ conn[c].pc = "dial"
    /\ metrics' = RecordConnection(RecordError(metrics, "destination"),
                                   connType(c), "failed")
    /\ conn' = [conn EXCEPT
                  ![c].ev = @ \o <<"dial_failed", "RecordError:destination",
                                   "RecordConnection:failed">>,
                  ![c].pc = "closeClient"]
    /\ UNCHANGED <<nextConn, cfg, srvVars>>

\* ReadAtLeastDone for a loop that wants more than min bytes
ReadAtLeastDone_Over(n) == n > discardMin

\* io.ReadAtLeast stops reading once it holds min bytes
ReadAtLeastDone(n) == n >= discardMin

\* discardPayload: one Read of io.ReadAtLeast's loop returns k bytes
DiscardRead(c) ==
    /\ conn[c].pc = "discard"
    /\ \E k \in 1..Min(Min(Len(conn[c].clientIn), MaxChunk),
                       defaultReadBufferSize - Len(conn[c].discarded)) :
         LET got == conn[c].discarded \o SubSeq(conn[c].clientIn, 1, k) IN
         conn' = [conn EXCEPT
                    ![c].discarded = got,
                    ![c].clientIn = SubSeq(@, k + 1, Len(@)),
                    ![c].ev = IF ReadAtLeastDone(Len(got))
                              THEN Append(@, "discard") ELSE @,
                    ![c].pc = IF ReadAtLeastDone(Len(got))
                              THEN "stream" ELSE "discard"]
    /\ UNCHANGED <<nextConn, metrics, cfg, srvVars>>

\* DiscardFail with the error of discardPayload ignored: the relay starts
DiscardFail_Relays(c) ==
    /\ conn[c].pc = "discard"
    /\ metrics' = RecordError(metrics, "payload")
    /\ conn' = [conn EXCEPT
                  ![c].ev = @ \o <<"discard_failed", "RecordError:payload">>,
                  ![c].pc = "stream"]
    /\ UNCHANGED <<nextConn, cfg, srvVars>>

\* discardPayload: a Read returns EOF or an error before min bytes were read:
\* RecordError("payload"), return
DiscardFail(c) ==
    /\ conn[c].pc = "discard"
    /\ metrics' = RecordError(metrics, "payload")
    /\ conn' = [conn EXCEPT
                  ![c].ev = @ \o <<"discard_failed", "RecordError:payload">>,
                  ![c].pc = DeferPc(c)]
    /\ UNCHANGED <<nextConn, cfg, srvVars>>

\* the connection a copy task reads from and the one it writes to:
\* HandleConnection calls streamConnections(destConn, clientConn), so
\* "src_to_dst" copies backend -> client and "dst_to_src" client -> backend
SrcSock(c, d) == IF d = "src_to_dst" THEN conn[c].destSock ELSE conn[c].clientSock
DstSock(c, d) == IF d = "src_to_dst" THEN conn[c].clientSock ELSE conn[c].destSock
Incoming(c, d) == IF d = "src_to_dst" THEN conn[c].backendIn ELSE conn[c].clientIn
Delivered(c, d) == IF d = "src_to_dst" THEN conn[c].toClient ELSE conn[c].toBackend

\* the peer's stream after a Read took its first k bytes
TakeIncoming(cn, d, k) ==
    IF d = "src_to_dst"
    THEN [cn EXCEPT !.backendIn = SubSeq(@, k + 1, Len(@))]
    ELSE [cn EXCEPT !.clientIn = SubSeq(@, k + 1, Len(@))]

\* Deliver with each chunk put in front of what was delivered before
Deliver_InFront(cn, d, w) ==
    IF d = "src_to_dst"
    THEN [cn EXCEPT !.toClient = <<Head(@)>> \o w \o Tail(@)]
    ELSE [cn EXCEPT !.toBackend = w \o @]

\* the other connection after a Write delivered the bytes w, in order
Deliver(cn, d, w) ==
    IF d = "src_to_dst"
    THEN [cn EXCEPT !.toClient = @ \o w]
    ELSE [cn EXCEPT !.toBackend = @ \o w]

\* streamConnections: make(chan error, 2) and the two go statements
streamConnections(c) ==
    /\ conn[c].pc = "stream"
    /\ conn' = [conn EXCEPT
                  ![c].errChan = <<>>,
                  ![c].cp = [d \in Dirs |-> [NoCopy EXCEPT !.pc = "read"]],
                  ![c].ev = Append(@, "relay_start"),
                  ![c].pc = "wait"]
    /\ UNCHANGED <<nextConn, metrics, cfg, srvVars>>

\* byteCounter.Read inside io.Copy returns k > 0 bytes:
\* RecordBytesTransferred(direction, n)
CopyRead(c, d) ==
    /\ conn[c].cp[d].pc = "read"
    /\ SrcSock(c, d) = "open"
    /\ \E k \in 1..Min(Min(Len(Incoming(c, d)), MaxChunk), defaultReadBufferSize) :
         LET chunk == SubSeq(Incoming(c, d), 1, k) IN
         /\ conn' = [conn EXCEPT
                       ![c] = [TakeIncoming(@, d, k) EXCEPT
                                 !.cp[d].buf = chunk,
                                 !.cp[d].rd = @ \o chunk,
                                 !.cp[d].pc = "write"]]
         /\ metrics' = RecordBytesTransferred(metrics, d, k)
    /\ UNCHANGED <<nextConn, cfg, srvVars>>

\* the result io.Copy's caller sends when the copy loop ends on a Read of 0
\* bytes: io.Copy turns io.EOF into a nil error
CopyResult(eof) == IF eof THEN "nil" ELSE "err"

\* CopyEnd with an error page written to the client when the copy failed
CopyEnd_Diagnostic(cn, d, res) ==
    [cn EXCEPT !.errChan = Append(@, res), !.cp[d].res = res, !.cp[d].pc = "done",
               !.toClient = IF res = "err" /\ cn.clientSock = "open"
                            THEN Append(@, "HTTP/1.1 502 Bad Gateway\r\n\r\n")
                            ELSE @]

\* a copy task ends: errChan <- err (or nil), which blocks while the channel
\* is full; nothing else happens between the end of io.Copy and the send
CopyEnd(cn, d, res) ==
    [cn EXCEPT !.errChan = Append(@, res), !.cp[d].res = res, !.cp[d].pc = "done"]

\* byteCounter.Read returns io.EOF: the peer has closed its side
CopyReadEOF(c, d) ==
    /\ conn[c].cp[d].pc = "read"
    /\ SrcSock(c, d) = "open"
    /\ Len(conn[c].errChan) < relayChanCap
    /\ conn' = [conn EXCEPT ![c] = CopyEnd(@, d, CopyResult(TRUE))]
    /\ UNCHANGED <<nextConn, metrics, cfg, srvVars>>

\* CopyReadErr with a Read that a Close of this side does not wake up
CopyReadErr_PeerOnly(c, d) ==
    /\ conn[c].cp[d].pc = "read"
    /\ SrcSock(c, d) = "open"
    /\ Len(conn[c].errChan) < relayChanCap
    /\ conn' = [conn EXCEPT ![c] = CopyEnd(@, d, CopyResult(FALSE))]
    /\ UNCHANGED <<nextConn, metrics, cfg, srvVars>>

\* byteCounter.Read returns an error: the connection was reset, or this side
\* has already closed it
CopyReadErr(c, d) ==
    /\ conn[c].cp[d].pc = "read"
    /\ SrcSock(c, d) \in {"open", "closed"}
    /\ Len(conn[c].errChan) < relayChanCap
    /\ conn' = [conn EXCEPT ![c] = CopyEnd(@, d, CopyResult(FALSE))]
    /\ UNCHANGED <<nextConn, metrics, cfg, srvVars>>

\* dst.Write takes the whole chunk: the loop goes on with the next Read
CopyWrite(c, d) ==
    /\ conn[c].cp[d].pc = "write"
    /\ DstSock(c, d) = "open"
    /\ conn' = [conn EXCEPT
                  ![c] = [Deliver(@, d, conn[c].cp[d].buf) EXCEPT
                            !.cp[d].buf = <<>>,
                            !.cp[d].pc = "read"]]
    /\ UNCHANGED <<nextConn, metrics, cfg, srvVars>>

\* CopyWriteErr with the error escalated to a shutdown of the server
CopyWriteErr_Escalates(c, d) ==
    /\ conn[c].cp[d].pc = "write"
    /\ DstSock(c, d) \in {"open", "closed"}
    /\ Len(conn[c].errChan) < relayChanCap
    /\ \E k \in 0..(IF DstSock(c, d) = "open" THEN Len(conn[c].cp[d].buf) - 1 ELSE 0) :
         conn' = [conn EXCEPT
                    ![c] = CopyEnd([Deliver(@, d, SubSeq(conn[c].cp[d].buf, 1, k))
                                      EXCEPT !.cp[d].buf = SubSeq(@, k + 1, Len(@))],
                                   d, CopyResult(FALSE))]
    /\ ctxDone' = TRUE
    /\ UNCHANGED <<nextConn, metrics, cfg, wg, serverErrChan, lis, metricsSrv,
                   watcher, main, sig, mainCtxDone>>

\* dst.Write fails after k < len bytes (none if this side has closed dst):
\* io.Copy returns the error
CopyWriteErr(c, d) ==
    /\ conn[c].cp[d].pc = "write"
    /\ DstSock(c, d) \in {"open", "closed"}
    /\ Len(conn[c].errChan) < relayChanCap
    /\ \E k \in 0..(IF DstSock(c, d) = "open" THEN Len(conn[c].cp[d].buf) - 1 ELSE 0) :
         conn' = [conn EXCEPT
                    ![c] = CopyEnd([Deliver(@, d, SubSeq(conn[c].cp[d].buf, 1, k))
                                      EXCEPT !.cp[d].buf = SubSeq(@, k + 1, Len(@))],
                                   d, CopyResult(FALSE))]
    /\ UNCHANGED <<nextConn, metrics, cfg, srvVars>>

\* relayWaitFor when streamConnections waits for both copy tasks
relayWaitFor_Both == Cardinality(Dirs)

\* how many results streamConnections needs before it returns
relayWaitFor == 1

\* StreamReturn without the RecordConnectionDuration
StreamReturn_NoDuration(c) ==
    /\ conn[c].pc = "wait"
    /\ Len(conn[c].errChan) >= relayWaitFor
    /\ conn' = [conn EXCEPT
                  ![c].errChan = SubSeq(@, relayWaitFor + 1, Len(@)),
                  ![c].ev = @ \o <<"relay_return">>,
                  ![c].pc = DeferPc(c)]
    /\ UNCHANGED <<nextConn, metrics, cfg, srvVars>>

\* streamConnections: <-errChan, then back in HandleConnection
\* RecordConnectionDuration and return
StreamReturn(c) ==
    /\ conn[c].pc = "wait"
    /\ Len(conn[c].errChan) >= relayWaitFor
    /\ metrics' = RecordConnectionDuration(metrics,
           IF conn[c].isTLS /\ cfg.TLSMode = "stunnel"
           THEN connType(c) \o "-stunnel" ELSE connType(c))
    /\ conn' = [conn EXCEPT
                  ![c].errChan = SubSeq(@, relayWaitFor + 1, Len(@)),
                  ![c].ev = @ \o <<"relay_return", "RecordConnectionDuration">>,
                  ![c].pc = DeferPc(c)]
    /\ UNCHANGED <<nextConn, cfg, srvVars>>

\* deferred destConn.Close()
CloseDest(c) ==
    /\ conn[c].pc = "closeDest"
    /\ conn' = [conn EXCEPT ![c].destSock = "closed",
                            ![c].ev = Append(@, "close_dest"),
                            ![c].pc = "closeClient"]
    /\ UNCHANGED <<nextConn, metrics, cfg, srvVars>>

\* CloseClient without the clientConn.Close()
CloseClient_NoClose(c) ==
    /\ conn[c].pc = "closeClient"
    /\ metrics' = RecordConnectionClosed(metrics)
    /\ conn' = [conn EXCEPT ![c].ev = @ \o <<"close_client", "RecordConnectionClosed">>,
                            ![c].pc = "returned"]
    /\ UNCHANGED <<nextConn, cfg, srvVars>>

\* the first defer: clientConn.Close(), p.metrics.RecordConnectionClosed();
\* HandleConnection returns
CloseClient(c) ==
    /\ conn[c].pc = "closeClient"
    /\ metrics' = RecordConnectionClosed(metrics)
    /\ conn' = [conn EXCEPT ![c].clientSock = "closed",
                            ![c].ev = @ \o <<"close_client", "RecordConnectionClosed">>,
                            ![c].pc = "returned"]
    /\ UNCHANGED <<nextConn, cfg, srvVars>>

\* one step of the HandleConnection task of connection c or of its copy tasks
HandleConnection(c) ==
    \/ HandshakeOk(c)
    \/ HandshakeFail(c)
    \/ DialOk(c)
    \/ DialFail(c)
    \/ DiscardRead(c)
    \/ DiscardFail(c)
    \/ streamConnections(c)
    \/ StreamReturn(c)
    \/ CloseDest(c)
    \/ CloseClient(c)
    \/ \E d \in Dirs :
         \/ CopyRead(c, d)
         \/ CopyReadEOF(c, d)
         \/ CopyReadErr(c, d)
         \/ CopyWrite(c, d)
         \/ CopyWriteErr(c, d)

(***************************************************************************)
(* internal/server.                                                        *)
(***************************************************************************)
Listeners == {"http", "tls"}

\* a listener goroutine before Start has spawned it
NoListener == [pc |-> "none", sock |-> "none", closer |-> "none", err |-> "none"]

\* cancel that leaves the context as it is
cancel_Nothing(done) == done

\* context.CancelFunc: cancelling twice is the same as cancelling once
cancel(done) == TRUE

\* sync.WaitGroup
wgAdd(n) == n + 1
wgDone(n) == n - 1
wgWait(n) == n = 0

\* whether Start counts the metrics goroutine in s.wg
metricsInWaitGroup == TRUE

\* Start: s.wg.Add(1) and a go statement for the plaintext listener, for the
\* TLS listener if TLSEnabled and for the metrics server if MetricsEnabled;
\* the goroutine that receives from serverErrChan; return nil.  The
\* goroutines touch what Start touches only through s.wg and serverErrChan,
\* so Start is one step.
Start ==
    /\ main = "start"
    /\ wg' = LET a == wgAdd(wg)
                 b == IF cfg.TLSEnabled THEN wgAdd(a) ELSE a
             IN  IF cfg.MetricsEnabled /\ metricsInWaitGroup THEN wgAdd(b) ELSE b
    /\ lis' = [lis EXCEPT !["http"].pc = "listen",
                          !["tls"].pc = IF cfg.TLSEnabled THEN "listen" ELSE "none"]
    /\ metricsSrv' = IF cfg.MetricsEnabled THEN "start" ELSE "none"
    /\ watcher' = "recv"
    /\ main' = "wait_ctx"
    /\ UNCHANGED <<cfg, connVars, ctxDone, serverErrChan, sig, mainCtxDone>>

\* startHTTPServer / startTLSServer: the listener is bound; the shutdown
\* goroutine that waits for s.ctx.Done() is started
ListenOk(l) ==
    /\ lis[l].pc = "listen"
    /\ lis' = [lis EXCEPT ![l].sock = "open", ![l].closer = "wait",
                          ![l].pc = "select"]
    /\ UNCHANGED <<cfg, connVars, ctxDone, wg, serverErrChan, metricsSrv,
                   watcher, main, sig, mainCtxDone>>

\* startHTTPServer / startTLSServer: resolving, loading the key pair or
\* listening fails; the function returns the error
ListenFail(l) ==
    /\ lis[l].pc = "listen"
    /\ lis' = [lis EXCEPT ![l].err = "listen", ![l].pc = "report"]
    /\ UNCHANGED <<cfg, connVars, ctxDone, wg, serverErrChan, metricsSrv,
                   watcher, main, sig, mainCtxDone>>

\* CloserClose without the listener.Close()
CloserClose_NoClose(l) ==
    /\ lis[l].closer = "wait"
    /\ ctxDone
    /\ lis' = [lis EXCEPT ![l].closer = "done"]
    /\ UNCHANGED <<cfg, connVars, ctxDone, wg, serverErrChan, metricsSrv,
                   watcher, main, sig, mainCtxDone>>

\* the shutdown goroutine: <-s.ctx.Done(); listener.Close()
CloserClose(l) ==
    /\ lis[l].closer = "wait"
    /\ ctxDone
    /\ lis' = [lis EXCEPT ![l].sock = "closed", ![l].closer = "done"]
    /\ UNCHANGED <<cfg, connVars, ctxDone, wg, serverErrChan, metricsSrv,
                   watcher, main, sig, mainCtxDone>>

\* LoopExit for a loop that binds its listener again when it is cancelled
LoopExit_Restart(l) ==
    /\ lis[l].pc = "select"
    /\ ctxDone
    /\ lis' = [lis EXCEPT ![l].sock = "closed", ![l].pc = "listen"]
    /\ UNCHANGED <<cfg, connVars, ctxDone, wg, serverErrChan, metricsSrv,
                   watcher, main, sig, mainCtxDone>>

\* the accept loop's select takes case <-s.ctx.Done(): return s.ctx.Err(),
\* and the deferred listener.Close() runs
LoopExit(l) ==
    /\ lis[l].pc = "select"
    /\ ctxDone
    /\ lis' = [lis EXCEPT ![l].sock = "closed", ![l].err = "ctx",
                          ![l].pc = "report"]
    /\ UNCHANGED <<cfg, connVars, ctxDone, wg, serverErrChan, metricsSrv,
                   watcher, main, sig, mainCtxDone>>

\* the sessions whose HandleConnection has not returned
ActiveSessions ==
    Cardinality({c \in Conns : conn[c].pc \notin {"free", "rejected", "returned"}})

\* LoopAccept for a loop that accepts only while there are fewer sessions
\* than max_connections
LoopAccept_Admission(l) ==
    /\ lis[l].pc = "select"
    /\ ~ctxDone
    /\ l = "http" => lis[l].sock = "open"
    /\ ActiveSessions < cfg.MaxConnections
    /\ lis' = [lis EXCEPT ![l].pc = "accept"]
    /\ UNCHANGED <<cfg, connVars, ctxDone, wg, serverErrChan, metricsSrv,
                   watcher, main, sig, mainCtxDone>>

\* the accept loop's select takes the default case: (plaintext:
\* listener.SetDeadline succeeds, then) the goroutine is in Accept
LoopAccept(l) ==
    /\ lis[l].pc = "select"
    /\ ~ctxDone
    /\ l = "http" => lis[l].sock = "open"
    /\ lis' = [lis EXCEPT ![l].pc = "accept"]
    /\ UNCHANGED <<cfg, connVars, ctxDone, wg, serverErrChan, metricsSrv,
                   watcher, main, sig, mainCtxDone>>

\* AcceptConn with the session's task counted in s.wg
AcceptConn_Tracked(l) ==
    /\ lis[l].pc = "accept"
    /\ lis[l].sock = "open"
    /\ nextConn <= MaxAccepts
    /\ conn' = [conn EXCEPT ![nextConn] = AcceptedConn(l = "tls", "handshake")]
    /\ nextConn' = nextConn + 1
    /\ wg' = wgAdd(wg)
    /\ lis' = [lis EXCEPT ![l].pc = "select"]
    /\ UNCHANGED <<cfg, metrics, ctxDone, serverErrChan, metricsSrv,
                   watcher, main, sig, mainCtxDone>>

\* Accept returns a connection (plaintext: and configureConnection
\* succeeds): go s.proxy.HandleConnection(s.ctx, conn, isTLS)
AcceptConn(l) ==
    /\ lis[l].pc = "accept"
    /\ lis[l].sock = "open"
    /\ nextConn <= MaxAccepts
    /\ conn' = [conn EXCEPT ![nextConn] = AcceptedConn(l = "tls", "handshake")]
    /\ nextConn' = nextConn + 1
    /\ lis' = [lis EXCEPT ![l].pc = "select"]
    /\ UNCHANGED <<cfg, metrics, ctxDone, wg, serverErrChan, metricsSrv,
                   watcher, main, sig, mainCtxDone>>

\* AcceptTCP returns a connection but configureConnection fails:
\* conn.Close(); continue
AcceptConfigureFail ==
    /\ lis["http"].pc = "accept"
    /\ lis["http"].sock = "open"
    /\ nextConn <= MaxAccepts
    /\ conn' = [conn EXCEPT ![nextConn] =
                  [AcceptedConn(FALSE, "rejected") EXCEPT !.clientSock = "closed"]]
    /\ nextConn' = nextConn + 1
    /\ lis' = [lis EXCEPT !["http"].pc = "select"]
    /\ UNCHANGED <<cfg, metrics, ctxDone, wg, serverErrChan, metricsSrv,
                   watcher, main, sig, mainCtxDone>>

\* AcceptTCP returns a timeout error after the 1 s deadline: continue
AcceptTimeout ==
    /\ lis["http"].pc = "accept"
    /\ lis["http"].sock = "open"
    /\ lis' = [lis EXCEPT !["http"].pc = "select"]
    /\ UNCHANGED <<cfg, connVars, ctxDone, wg, serverErrChan, metricsSrv,
                   watcher, main, sig, mainCtxDone>>

\* the plaintext loop's listener.SetDeadline fails: the error is logged,
\* continue; the goroutine is at the select again
SetDeadlineFail ==
    /\ lis["http"].pc = "select"
    /\ ~ctxDone
    /\ lis' = [lis EXCEPT !["http"].pc = "select"]
    /\ UNCHANGED <<cfg, connVars, ctxDone, wg, serverErrChan, metricsSrv,
                   watcher, main, sig, mainCtxDone>>

\* Accept returns an error that is neither a timeout nor that of a closed
\* listener (no file descriptor left, a connection aborted in the backlog):
\* the error is logged, continue
AcceptError(l) ==
    /\ lis[l].pc = "accept"
    /\ lis[l].sock = "open"
    /\ lis' = [lis EXCEPT ![l].pc = "select"]
    /\ UNCHANGED <<cfg, connVars, ctxDone, wg, serverErrChan, metricsSrv,
                   watcher, main, sig, mainCtxDone>>

\* AcceptClosed for a loop that gives up when Accept fails
AcceptClosed_Returns(l) ==
    /\ lis[l].pc = "accept"
    /\ lis[l].sock = "closed"
    /\ lis' = [lis EXCEPT ![l].err = "accept", ![l].pc = "report"]
    /\ UNCHANGED <<cfg, connVars, ctxDone, wg, serverErrChan, metricsSrv,
                   watcher, main, sig, mainCtxDone>>

\* Accept returns the error of a closed listener: continue
AcceptClosed(l) ==
    /\ lis[l].pc = "accept"
    /\ lis[l].sock = "closed"
    /\ lis' = [lis EXCEPT ![l].pc = "select"]
    /\ UNCHANGED <<cfg, connVars, ctxDone, wg, serverErrChan, metricsSrv,
                   watcher, main, sig, mainCtxDone>>

\* ReportErr on a channel made with room for one error only
ReportErr_CapOne(l) ==
    /\ lis[l].pc = "report"
    /\ Len(serverErrChan) < serverErrChanCap - 1
    /\ serverErrChan' = Append(serverErrChan, [from |-> l, err |-> lis[l].err])
    /\ wg' = wgDone(wg)
    /\ lis' = [lis EXCEPT ![l].pc = "done"]
    /\ UNCHANGED <<cfg, connVars, ctxDone, metricsSrv, watcher, main, sig,
                   mainCtxDone>>

\* the listener goroutine of Start: serverErrChan <- errors.Wrap(err, ...),
\* which blocks while the channel is full, then the deferred s.wg.Done()
ReportErr(l) ==
    /\ lis[l].pc = "report"
    /\ Len(serverErrChan) < serverErrChanCap
    /\ serverErrChan' = Append(serverErrChan, [from |-> l, err |-> lis[l].err])
    /\ wg' = wgDone(wg)
    /\ lis' = [lis EXCEPT ![l].pc = "done"]
    /\ UNCHANGED <<cfg, connVars, ctxDone, metricsSrv, watcher, main, sig,
                   mainCtxDone>>

\* StartMetricsServer: http.Server.ListenAndServe is serving
MetricsServe ==
    /\ metricsSrv = "start"
    /\ metricsSrv' = "serving"
    /\ UNCHANGED <<cfg, connVars, ctxDone, wg, serverErrChan, lis, watcher,
                   main, sig, mainCtxDone>>

\* MetricsFail with the error sent on serverErrChan, as the goroutines of
\* the primary listeners do
MetricsFail_Reports ==
    /\ metricsSrv \in {"start", "serving"}
    /\ Len(serverErrChan) < serverErrChanCap
    /\ metricsSrv' = "failed"
    /\ serverErrChan' = Append(serverErrChan, [from |-> "metrics", err |-> "listen"])
    /\ wg' = IF metricsInWaitGroup THEN wgDone(wg) ELSE wg
    /\ UNCHANGED <<cfg, connVars, ctxDone, lis, watcher, main, sig, mainCtxDone>>

\* StartMetricsServer: ListenAndServe returns an error; the goroutine of
\* Start logs it, and the deferred s.wg.Done() runs
MetricsFail ==
    /\ metricsSrv \in {"start", "serving"}
    /\ metricsSrv' = "failed"
    /\ wg' = IF metricsInWaitGroup THEN wgDone(wg) ELSE wg
    /\ UNCHANGED <<cfg, connVars, ctxDone, serverErrChan, lis, watcher, main,
                   sig, mainCtxDone>>

\* WatcherRecv with a Stop that flips the server's state rather than
\* cancelling: a second call undoes the first
WatcherRecv_Toggle ==
    /\ watcher = "recv"
    /\ Len(serverErrChan) > 0
    /\ serverErrChan' = Tail(serverErrChan)
    /\ ctxDone' = ~ctxDone
    /\ watcher' = "stop_wait"
    /\ UNCHANGED <<cfg, connVars, wg, lis, metricsSrv, main, sig, mainCtxDone>>

\* Start's last goroutine: err := <-serverErrChan; err is never nil (only
\* errors are sent), so s.Stop() is entered: s.cancel()
WatcherRecv ==
    /\ watcher = "recv"
    /\ Len(serverErrChan) > 0
    /\ serverErrChan' = Tail(serverErrChan)
    /\ ctxDone' = cancel(ctxDone)
    /\ watcher' = "stop_wait"
    /\ UNCHANGED <<cfg, connVars, wg, lis, metricsSrv, main, sig, mainCtxDone>>

\* WatcherStopReturn for a goroutine that, like the signal goroutine, goes
\* on to cancel runProxy's context
WatcherStopReturn_Cancels ==
    /\ watcher = "stop_wait"
    /\ wgWait(wg)
    /\ watcher' = "done"
    /\ mainCtxDone' = TRUE
    /\ UNCHANGED <<cfg, connVars, ctxDone, wg, serverErrChan, lis, metricsSrv,
                   main, sig>>

\* Stop called by Start's goroutine: s.wg.Wait() returns, Stop returns
WatcherStopReturn ==
    /\ watcher = "stop_wait"
    /\ wgWait(wg)
    /\ watcher' = "done"
    /\ UNCHANGED <<cfg, connVars, ctxDone, wg, serverErrChan, lis, metricsSrv,
                   main, sig, mainCtxDone>>

(***************************************************************************)
(* cmd.runProxy.                                                           *)
(***************************************************************************)
\* Signal with a cancellation that closes the sockets of the sessions
Signal_ClosesSessions ==
    /\ sig = "wait_sig"
    /\ ctxDone' = cancel(ctxDone)
    /\ sig' = "stop_wait"
    /\ conn' = [c \in Conns |->
                  IF conn[c].pc \in {"free", "rejected"} THEN conn[c]
                  ELSE [conn[c] EXCEPT !.clientSock = "closed"]]
    /\ UNCHANGED <<cfg, nextConn, metrics, wg, serverErrChan, lis, metricsSrv,
                   watcher, main, mainCtxDone>>

\* sig := <-sigChan; srv.Stop() is entered: s.cancel()
Signal ==
    /\ sig = "wait_sig"
    /\ ctxDone' = cancel(ctxDone)
    /\ sig' = "stop_wait"
    /\ UNCHANGED <<cfg, connVars, wg, serverErrChan, lis, metricsSrv, watcher,
                   main, mainCtxDone>>

\* Stop called by the signal goroutine: s.wg.Wait() returns, Stop returns,
\* and the goroutine goes on to cancel()
SigStopReturn ==
    /\ sig = "stop_wait"
    /\ wgWait(wg)
    /\ mainCtxDone' = TRUE
    /\ sig' = "done"
    /\ UNCHANGED <<cfg, connVars, ctxDone, wg, serverErrChan, lis, metricsSrv,
                   watcher, main>>

\* runProxy: <-ctx.Done()
MainCtxDone ==
    /\ main = "wait_ctx"
    /\ mainCtxDone
    /\ main' = "wait_wg"
    /\ UNCHANGED <<cfg, connVars, ctxDone, wg, serverErrChan, lis, metricsSrv,
                   watcher, sig, mainCtxDone>>

\* runProxy: srv.Wait() returns; runProxy returns nil
MainReturn ==
    /\ main = "wait_wg"
    /\ wgWait(wg)
    /\ main' = "returned"
    /\ UNCHANGED <<cfg, connVars, ctxDone, wg, serverErrChan, lis, metricsSrv,
                   watcher, sig, mainCtxDone>>

\* the handshake codes configured: the default (none) and custom ones
HandshakeCodes == {"", "200", "403"}

\* max_connections as it is configured: the smallest value Validate accepts
MinMaxConnections == 1

Configs ==
    [TLSEnabled : BOOLEAN, MetricsEnabled : BOOLEAN,
     TLSMode : {"handshake", "stunnel"}, HandshakeCode : HandshakeCodes,
     MaxConnections : {MinMaxConnections}]

\* the server before runProxy has called srv.Start()
ServerInit ==
    /\ ctxDone = FALSE
    /\ wg = 0
    /\ serverErrChan = <<>>
    /\ lis = [l \in Listeners |-> NoListener]
    /\ metricsSrv = "none"
    /\ watcher = "none"
    /\ main = "start"
    /\ sig = "wait_sig"
    /\ mainCtxDone = FALSE

\* runProxy after signal.Notify, before srv.Start(); the handshake code is
\* DefaultConfig's, and so is the TLS mode when TLS is disabled
Init ==
    /\ cfg \in {k \in Configs : /\ k.HandshakeCode = ""
                                /\ ~k.TLSEnabled => k.TLSMode = "handshake"}
    /\ conn = [c \in Conns |-> FreeConn]
    /\ nextConn = 1
    /\ metrics = NewMetrics
    /\ ServerInit

Server ==
    \/ Start
    \/ MetricsServe
    \/ MetricsFail
    \/ WatcherRecv
    \/ WatcherStopReturn
    \/ AcceptConfigureFail
    \/ AcceptTimeout
    \/ SetDeadlineFail
    \/ \E l \in Listeners :
         \/ ListenOk(l)
         \/ ListenFail(l)
         \/ CloserClose(l)
         \/ LoopExit(l)
         \/ LoopAccept(l)
         \/ AcceptConn(l)
         \/ AcceptClosed(l)
         \/ AcceptError(l)
         \/ ReportErr(l)

RunProxy ==
    \/ Signal
    \/ SigStopReturn
    \/ MainCtxDone
    \/ MainReturn

Next ==
    \/ Server
    \/ RunProxy
    \/ \E c \in Conns : HandleConnection(c)

Spec == Init /\ [][Next]_vars

(***************************************************************************)
(* HandleConnection on its own: one connection of either origin is handed  *)
(* to Proxy.HandleConnection under every configuration, with peers that    *)
(* send up to discardMin + MaxClientExtra and MaxBackendBytes bytes.       *)
(***************************************************************************)
ConnInit ==
    /\ cfg \in Configs
    /\ \E tls \in BOOLEAN :
         conn = [c \in Conns |->
                   IF c = 1
                   THEN NewSession(tls, "handshake", MaxClientExtra, MaxBackendBytes)
                   ELSE FreeConn]
    /\ nextConn = 2
    /\ metrics = NewMetrics
    /\ ServerInit

ConnNext == \E c \in Conns : HandleConnection(c)

ConnSpec == ConnInit /\ [][ConnNext]_vars

(***************************************************************************)
(* Reading a session's event log.                                          *)
(***************************************************************************)
Has(e, x) == \E i \in DOMAIN e : e[i] = x
Count(e, S) == Cardinality({i \in DOMAIN e : e[i] \in S})
\* every x in e has a y somewhere before it
Precedes(e, y, x) == \A i \in DOMAIN e : e[i] = x => \E j \in 1..(i - 1) : e[j] = y
Relaying(c) == conn[c].pc = "wait"

(***************************************************************************)
(* C1: in every session the handshake write comes first; the backend is    *)
(* dialed only after the handshake write succeeded, and the relay's copy   *)
(* tasks are started only after the dial succeeded -- for plaintext and    *)
(* TLS connections, in handshake and in stunnel mode.                      *)
(***************************************************************************)
C1_HandshakeDialRelay ==
    \A c \in Conns :
      LET e == conn[c].ev IN
      /\ e # <<>> => e[1] \in {"handshake", "handshake_failed"}
      /\ Precedes(e, "handshake", "dial")
      /\ Precedes(e, "handshake", "dial_failed")
      /\ Precedes(e, "dial", "relay_start")
      /\ conn[c].destSock # "none" =>
            /\ Has(e, "handshake")
            /\ conn[c].toClient # <<>>
            /\ conn[c].toClient[1] = HandshakeResponse(cfg.HandshakeCode)
      /\ (\E d \in Dirs : conn[c].cp[d].pc # "none") =>
            /\ conn[c].destSock # "none"
            /\ Has(e, "dial")

\* a TLS connection in stunnel mode is being relayed
C1_Witness ==
    \E c \in Conns :
      /\ conn[c].isTLS
      /\ cfg.TLSMode = "stunnel"
      /\ Relaying(c)
      /\ conn[c].ev = <<"handshake", "dial", "RecordConnection:success", "relay_start">>

(***************************************************************************)
(* C2: streamConnections returns as soon as one copy task has sent its     *)
(* result: while it waits and one task is done it is able to return, and   *)
(* when it has returned at least one task is done -- the other one need    *)
(* not be.                                                                 *)
(***************************************************************************)
C2_ReturnsOnFirstCompletion ==
    \A c \in Conns :
      /\ (Relaying(c) /\ \E d \in Dirs : conn[c].cp[d].pc = "done")
            => ENABLED StreamReturn(c)
      /\ Has(conn[c].ev, "relay_return")
            => \E d \in Dirs : conn[c].cp[d].pc = "done"

\* streamConnections has returned while the other direction holds a chunk it
\* has read and not delivered, with more of the peer's bytes unread
C2_Witness ==
    \E c \in Conns : \E d \in Dirs :
      /\ conn[c].pc = "closeDest"
      /\ Has(conn[c].ev, "relay_return")
      /\ conn[c].cp[d].pc = "write"
      /\ conn[c].cp[d].buf # <<>>
      /\ Incoming(c, d) # <<>>

(***************************************************************************)
(* C3: in each direction of a relay the bytes delivered to one side are a  *)
(* prefix of the bytes read from the other side, which are the bytes that  *)
(* side sent, in the order it sent them.                                   *)
(***************************************************************************)
\* the bytes written to the client after the handshake response
RelayedToClient(c) ==
    IF conn[c].toClient = <<>> THEN <<>> ELSE Tail(conn[c].toClient)

C3_RelayPrefix ==
    \A c \in Conns :
      /\ IsPrefix(conn[c].toBackend, conn[c].cp["dst_to_src"].rd)
      /\ IsPrefix(RelayedToClient(c), conn[c].cp["src_to_dst"].rd)
      /\ conn[c].pc # "free" =>
            /\ \E n \in 0..(discardMin + MaxClientExtra) :
                  conn[c].discarded \o conn[c].cp["dst_to_src"].rd \o conn[c].clientIn
                    = ClientStream(n)
            /\ \E n \in 0..MaxBackendBytes :
                  conn[c].cp["src_to_dst"].rd \o conn[c].backendIn = BackendStream(n)

\* after a payload discard both directions have delivered two bytes, the
\* backend's in two chunks
C3_Witness ==
    \E c \in Conns :
      /\ Len(conn[c].discarded) >= discardMin
      /\ Len(conn[c].toBackend) >= 2
      /\ Len(RelayedToClient(c)) >= 2
      /\ metrics.bytesTransferred["src_to_dst"] = 2
      /\ conn[c].cp["src_to_dst"].pc = "read"

(***************************************************************************)
(* C10: when HandleConnection has returned the client socket is closed,    *)
(* and so is the backend socket if the dial succeeded.                     *)
(***************************************************************************)
C10_SocketsClosed ==
    \A c \in Conns :
      conn[c].pc = "returned" =>
        /\ conn[c].clientSock = "closed"
        /\ Has(conn[c].ev, "dial") => conn[c].destSock = "closed"
        /\ ~Has(conn[c].ev, "dial") => conn[c].destSock = "none"

\* HandleConnection has returned after a failed payload discard
C10_Witness ==
    \E c \in Conns :
      /\ conn[c].pc = "returned"
      /\ Has(conn[c].ev, "discard_failed")
      /\ conn[c].destSock = "closed"
      /\ conn[c].clientSock = "closed"

(***************************************************************************)
(* The whole program with the scheduling the Go runtime guarantees: a      *)
(* goroutine that can take a step of its own takes it.  What the           *)
(* environment decides is not fair: a signal, a client connecting, a call  *)
(* failing, and every step of a session, which waits for its peers.        *)
(* AcceptTimeout is fair because the accept deadline of 1 s expires when   *)
(* no connection arrives.                                                  *)
(***************************************************************************)
Fairness ==
    /\ WF_vars(Start)
    /\ WF_vars(MetricsServe)
    /\ WF_vars(WatcherRecv)
    /\ WF_vars(WatcherStopReturn)
    /\ WF_vars(SigStopReturn)
    /\ WF_vars(MainCtxDone)
    /\ WF_vars(MainReturn)
    /\ WF_vars(AcceptTimeout)
    /\ \A l \in Listeners :
         /\ WF_vars(ListenOk(l))
         /\ WF_vars(CloserClose(l))
         /\ WF_vars(LoopExit(l))
         /\ WF_vars(LoopAccept(l))
         /\ WF_vars(AcceptClosed(l))
         /\ WF_vars(ReportErr(l))

FairSpec == Init /\ [][Next]_vars /\ Fairness

(***************************************************************************)
(* Reading the server's state.                                             *)
(***************************************************************************)
\* a call of Stop has been entered / has returned
StopEntered == sig \in {"stop_wait", "done"} \/ watcher \in {"stop_wait", "done"}
StopReturned == sig = "done" \/ watcher = "done"
\* startHTTPServer / startTLSServer has returned
LoopExited(l) == lis[l].pc \in {"report", "done"}
\* the listener goroutines Start spawns
Spawned(l) == l = "http" \/ cfg.TLSEnabled
\* the goroutines counted in s.wg that have not reached s.wg.Done()
LiveInWaitGroup ==
    Cardinality({l \in Listeners : lis[l].pc \in {"listen", "select", "accept", "report"}})
    + (IF metricsSrv \in {"start", "serving"} THEN 1 ELSE 0)

(***************************************************************************)
(* C4: after the cancellation signal is set, every call of Stop that has   *)
(* been entered returns, whether TLS and metrics are enabled or not.       *)
(***************************************************************************)
C4_StopReturns ==
    /\ (sig = "stop_wait") ~> (sig = "done")
    /\ (watcher = "stop_wait") ~> (watcher = "done")

(***************************************************************************)
(* C5: when Stop has returned the cancellation signal is set and both the  *)
(* plaintext and the TLS accept loop have exited.                          *)
(***************************************************************************)
C5_StopAfterLoopsExit ==
    StopReturned =>
      /\ ctxDone
      /\ \A l \in Listeners : Spawned(l) => LoopExited(l)

(***************************************************************************)
(* C6: Stop does not wait for sessions: s.wg counts the listener and       *)
(* metrics goroutines and nothing else, so Stop returns whatever the       *)
(* sessions are doing.                                                     *)
(***************************************************************************)
C6_SessionsNotTracked ==
    /\ main # "start" => wg = LiveInWaitGroup
    /\ main = "start" => wg = 0
    /\ (sig = "stop_wait" /\ LiveInWaitGroup = 0 /\ main # "start")
          => ENABLED SigStopReturn

\* Stop has returned while a session accepted before the cancellation is
\* being relayed
C6_Witness ==
    /\ StopReturned
    /\ \E c \in Conns :
         /\ Relaying(c)
         /\ \A d \in Dirs : conn[c].cp[d].pc \in {"read", "write"}

(***************************************************************************)
(* C7: once the cancellation signal is set, the plaintext and the TLS      *)
(* accept loop exit, also when no client connects any more.                *)
(***************************************************************************)
C7_LoopsExitOnCancel ==
    ctxDone ~> (main # "start" /\ \A l \in Listeners : Spawned(l) => LoopExited(l))

\* the TLS goroutine is in Accept, the listener has been closed and no
\* client has ever connected
C7_Witness ==
    /\ ctxDone
    /\ lis["tls"].pc = "accept"
    /\ lis["tls"].sock = "closed"
    /\ nextConn = 1

(***************************************************************************)
(* C8: when a primary listener fails to start, Stop is invoked: the        *)
(* cancellation signal is set and the other accept loop exits.             *)
(***************************************************************************)
C8_ListenErrorStops ==
    (\E l \in Listeners : lis[l].err = "listen")
      ~> (/\ ctxDone
          /\ watcher \in {"stop_wait", "done"}
          /\ \A l \in Listeners : Spawned(l) => LoopExited(l))

\* the TLS listener failed to start, no signal was delivered, and the
\* plaintext accept loop, which was listening, has exited on cancellation
C8_Witness ==
    /\ lis["tls"].err = "listen"
    /\ sig = "wait_sig"
    /\ lis["http"].err = "ctx"
    /\ lis["http"].pc = "done"
    /\ watcher \in {"stop_wait", "done"}

(***************************************************************************)
(* C9, as claimed: every connection a listener has accepted and the server *)
(* has closed again has exactly one RecordConnectionClosed and exactly one *)
(* RecordConnection to its name.                                           *)
(***************************************************************************)
RecordConnectionEvents == {"RecordConnection:success", "RecordConnection:failed"}

C9_EveryAcceptedConnection ==
    \A c \in Conns :
      (conn[c].pc # "free" /\ conn[c].clientSock = "closed") =>
        /\ Count(conn[c].ev, {"RecordConnectionClosed"}) = 1
        /\ Count(conn[c].ev, RecordConnectionEvents) = 1

(***************************************************************************)
(* C9, amended: every connection handed to HandleConnection has, when      *)
(* HandleConnection returns, exactly one RecordConnectionClosed, preceded  *)
(* by exactly one RecordConnection, on the success path and on every       *)
(* failure path; a connection whose configureConnection fails gets         *)
(* neither.  The active-connections gauge is the number of sessions        *)
(* between the two calls: it is never negative and is back at its prior    *)
(* value when the sessions have returned.                                  *)
(***************************************************************************)
C9_HandledConnection ==
    /\ \A c \in Conns :
         LET e == conn[c].ev IN
         /\ Count(e, {"RecordConnectionClosed"}) <= 1
         /\ Count(e, RecordConnectionEvents) <= 1
         /\ \A i \in DOMAIN e : e[i] = "RecordConnectionClosed" =>
               \E j \in 1..(i - 1) : e[j] \in RecordConnectionEvents
         /\ conn[c].pc = "returned" <=> Has(e, "RecordConnectionClosed")
         /\ conn[c].pc = "rejected" => e = <<>>
    /\ metrics.connectionsActive >= 0
    /\ metrics.connectionsActive =
         IF cfg.MetricsEnabled
         THEN Cardinality({c \in Conns :
                /\ Count(conn[c].ev, RecordConnectionEvents) = 1
                /\ ~Has(conn[c].ev, "RecordConnectionClosed")})
         ELSE 0

\* with metrics enabled, an accepted connection has gone through
\* HandleConnection on the dial-failure path and the gauge is back at 0
C9_Witness ==
    \E c \in Conns :
      /\ cfg.MetricsEnabled
      /\ conn[c].pc = "returned"
      /\ Has(conn[c].ev, "dial_failed")
      /\ metrics.connectionsActive = 0
      /\ metrics.connectionsTotal[<<connType(c), "failed">>] = 1

(***************************************************************************)
(* After a call of Stop has returned no listener hands a connection to     *)
(* HandleConnection.                                                       *)
(***************************************************************************)
NoDispatchAfterStop == [][StopReturned => nextConn' = nextConn]_vars

(***************************************************************************)
(* Reading a session: where it came from and what it has gone through.     *)
(***************************************************************************)
\* the connection came from the TLS listener and TLS mode is stunnel
Stunnel(c) == conn[c].isTLS /\ cfg.TLSMode = "stunnel"
\* a copy task of the session has been started
CopyStarted(c) == \E d \in Dirs : conn[c].cp[d].pc # "none"
\* HandleConnection is in its deferred calls or has returned
Returning(c) == conn[c].pc \in {"closeDest", "closeClient", "returned"}

(***************************************************************************)
(* C11: after a successful dial discardPayload is skipped if and only if   *)
(* the connection came from the TLS listener and TLS mode is stunnel; in    *)
(* every other combination discardPayload has run, and succeeded, before   *)
(* the relay starts.                                                       *)
(***************************************************************************)
C11_DiscardSkippedIffStunnel ==
    \A c \in Conns :
      LET e == conn[c].ev IN
      /\ Stunnel(c) =>
            /\ ~Has(e, "discard") /\ ~Has(e, "discard_failed")
            /\ conn[c].discarded = <<>>
            /\ conn[c].pc # "discard"
      /\ ~Stunnel(c) =>
            /\ Precedes(e, "discard", "relay_start")
            /\ Precedes(e, "dial", "discard")
            /\ CopyStarted(c) => Has(e, "discard")
            /\ (Has(e, "dial") /\ conn[c].pc # "discard") =>
                  Has(e, "discard") \/ Has(e, "discard_failed")
      /\ (Has(e, "dial") /\ ~Has(e, "discard_failed")
            /\ conn[c].pc \notin {"discard", "stream"}) => Has(e, "relay_start")

\* a plaintext connection in stunnel mode is being relayed, after a payload
\* discard
C11_Witness ==
    \E c \in Conns :
      /\ ~conn[c].isTLS
      /\ cfg.TLSMode = "stunnel"
      /\ Relaying(c)
      /\ conn[c].ev = <<"handshake", "dial", "RecordConnection:success",
                        "discard", "relay_start">>

(***************************************************************************)
(* C12: discardPayload fails exactly when the client's stream ends (EOF or *)
(* a read error) before discardMin bytes have been read in total: while    *)
(* fewer bytes have been read the failure can happen, and once discardMin  *)
(* bytes have been read it cannot.  When it fails HandleConnection records *)
(* one payload error and returns without starting a copy task.             *)
(***************************************************************************)
C12_DiscardFailsBelowMin ==
    /\ \A c \in Conns :
         LET e == conn[c].ev IN
         /\ conn[c].pc = "discard" =>
               /\ Len(conn[c].discarded) < discardMin
               /\ ENABLED DiscardFail(c)
         /\ Len(conn[c].discarded) >= discardMin => ~ENABLED DiscardFail(c)
         /\ Has(e, "discard") =>
               /\ Len(conn[c].discarded) >= discardMin
               /\ ~Has(e, "discard_failed")
         /\ Has(e, "discard_failed") =>
               /\ Len(conn[c].discarded) < discardMin
               /\ Count(e, {"RecordError:payload"}) = 1
               /\ ~Has(e, "relay_start")
               /\ ~CopyStarted(c)
               /\ Returning(c)
         /\ ~Has(e, "discard_failed") => ~Has(e, "RecordError:payload")
    /\ metrics.errorsTotal["payload"] =
         IF cfg.MetricsEnabled
         THEN Cardinality({c \in Conns : Has(conn[c].ev, "discard_failed")})
         ELSE 0

\* the client's stream ended after discardMin - 1 bytes: HandleConnection
\* has returned with one payload error counted
C12_Witness ==
    \E c \in Conns :
      /\ conn[c].pc = "returned"
      /\ Len(conn[c].discarded) = discardMin - 1
      /\ Has(conn[c].ev, "discard_failed")
      /\ metrics.errorsTotal["payload"] = 1
      /\ ~CopyStarted(c)

(***************************************************************************)
(* C13: a successful discardPayload has consumed at least discardMin and   *)
(* at most defaultReadBufferSize bytes, and it stopped reading with the    *)
(* Read that brought the total to discardMin or more.  None of the bytes   *)
(* it consumed is written to the backend: what the backend receives is the *)
(* client's stream from the first byte after the consumed ones.            *)
(***************************************************************************)
C13_DiscardedNeverForwarded ==
    \A c \in Conns :
      LET n == Len(conn[c].discarded)
          b == conn[c].toBackend
      IN
      /\ Has(conn[c].ev, "discard") =>
            /\ n >= discardMin
            /\ n <= defaultReadBufferSize
            \* the Read before the last one left fewer than discardMin bytes
            /\ n - MaxChunk < discardMin
      /\ conn[c].discarded = ClientStream(n)
      /\ \A i \in DOMAIN b :
            /\ b[i] = ClientByte(n + i)
            /\ \A j \in 1..n : b[i] # conn[c].discarded[j]
      /\ (b # <<>> /\ ~Stunnel(c)) => Has(conn[c].ev, "discard")

\* discardPayload consumed discardMin + 1 bytes in Reads of one and two
\* bytes, and the backend has received the one byte after them
C13_Witness ==
    \E c \in Conns :
      /\ Len(conn[c].discarded) = discardMin + 1
      /\ conn[c].toBackend = <<ClientByte(discardMin + 2)>>
      /\ conn[c].clientIn = <<>>

(***************************************************************************)
(* C14: when the backend dial fails HandleConnection records one error of  *)
(* type destination and one connection with status failed, starts no copy  *)
(* task and returns.                                                       *)
(***************************************************************************)
C14_DialFailure ==
    /\ \A c \in Conns :
         LET e == conn[c].ev IN
         Has(e, "dial_failed") =>
           /\ Count(e, {"RecordError:destination"}) = 1
           /\ Count(e, {"RecordConnection:failed"}) = 1
           /\ ~Has(e, "RecordConnection:success")
           /\ ~Has(e, "relay_start")
           /\ ~CopyStarted(c)
           /\ conn[c].destSock = "none"
           /\ conn[c].toBackend = <<>>
           /\ conn[c].pc \in {"closeClient", "returned"}
           /\ conn[c].pc = "closeClient" => ENABLED CloseClient(c)
    /\ metrics.errorsTotal["destination"] =
         IF cfg.MetricsEnabled
         THEN Cardinality({c \in Conns : Has(conn[c].ev, "dial_failed")})
         ELSE 0
    /\ \A t \in ConnTypes :
         metrics.connectionsTotal[<<t, "failed">>] =
           IF cfg.MetricsEnabled
           THEN Cardinality({c \in Conns :
                   /\ conn[c].pc # "free"
                   /\ connType(c) = t
                   /\ Has(conn[c].ev, "RecordConnection:failed")})
           ELSE 0

\* HandleConnection has returned after a failed dial of a TLS connection,
\* with the error and the failed connection counted
C14_Witness ==
    \E c \in Conns :
      /\ conn[c].pc = "returned"
      /\ conn[c].isTLS
      /\ conn[c].ev = <<"handshake", "dial_failed", "RecordError:destination",
                        "RecordConnection:failed", "close_client",
                        "RecordConnectionClosed">>
      /\ metrics.errorsTotal["destination"] = 1
      /\ metrics.connectionsTotal[<<"tls", "failed">>] = 1

(***************************************************************************)
(* C15: when the handshake write fails performHandshake returns the error: *)
(* the write is not tried again, the backend is not dialed, no copy task   *)
(* is started and the client connection is closed.                         *)
(***************************************************************************)
C15_HandshakeFailure ==
    \A c \in Conns :
      LET e == conn[c].ev IN
      Has(e, "handshake_failed") =>
        /\ e[1] = "handshake_failed"
        /\ Count(e, {"handshake", "handshake_failed"}) = 1
        /\ ~Has(e, "dial") /\ ~Has(e, "dial_failed")
        /\ conn[c].destSock = "none"
        /\ ~Has(e, "relay_start")
        /\ ~CopyStarted(c)
        /\ conn[c].pc \in {"closeClient", "returned"}
        /\ conn[c].pc = "closeClient" => ENABLED CloseClient(c)
        /\ conn[c].pc = "returned" =>
              /\ conn[c].clientSock = "closed"
              /\ Has(e, "close_client")

\* HandleConnection has returned after a failed handshake write on a
\* plaintext connection, whose socket is closed
C15_Witness ==
    \E c \in Conns :
      /\ conn[c].pc = "returned"
      /\ ~conn[c].isTLS
      /\ conn[c].clientSock = "closed"
      /\ conn[c].ev = <<"handshake_failed", "RecordError:handshake",
                        "RecordConnection:failed", "close_client",
                        "RecordConnectionClosed">>

(***************************************************************************)
(* C16: with a non-empty handshake code C performHandshake makes exactly   *)
(* one write, of "HTTP/1.1 " + C + " Ok\r\n\r\n", and reads nothing from   *)
(* the client connection.                                                  *)
(***************************************************************************)
\* HandleConnection has not gone past performHandshake and the dial
BeforePayload(c) ==
    /\ conn[c].pc # "free"
    /\ ~Has(conn[c].ev, "dial")

C16_CustomHandshake ==
    cfg.HandshakeCode # "" =>
      \A c \in Conns :
        LET e == conn[c].ev
            w == conn[c].toClient
        IN
        /\ Count(e, {"handshake", "handshake_failed"}) <= 1
        /\ Has(e, "handshake") =>
              /\ w # <<>>
              /\ w[1] = "HTTP/1.1 " \o cfg.HandshakeCode \o " Ok\r\n\r\n"
              /\ cfg.HandshakeCode = "200" => w[1] = "HTTP/1.1 200 Ok\r\n\r\n"
              /\ cfg.HandshakeCode = "403" => w[1] = "HTTP/1.1 403 Ok\r\n\r\n"
              /\ \A i \in 2..Len(w) : \E j \in 1..MaxBackendBytes : w[i] = BackendByte(j)
        /\ ~Has(e, "handshake") => w = <<>>
        \* nothing has been read from the client when performHandshake is over
        /\ BeforePayload(c) =>
              /\ conn[c].clientIn = ClientSends(conn[c].isTLS, MaxClientExtra)
              /\ conn[c].discarded = <<>>
              /\ conn[c].cp["dst_to_src"].rd = <<>>

\* the handshake with code 200 has been written and the client's bytes are
\* unread
C16_Witness ==
    \E c \in Conns :
      /\ cfg.HandshakeCode = "200"
      /\ conn[c].pc = "dial"
      /\ conn[c].toClient = <<"HTTP/1.1 200 Ok\r\n\r\n">>
      /\ Len(conn[c].clientIn) = discardMin + MaxClientExtra

(***************************************************************************)
(* Connections handed to HandleConnection one after another: the first is  *)
(* of either origin and sends what the connections of Spec send; when its  *)
(* HandleConnection has returned the next one arrives, of either origin,   *)
(* whose client sends up to discardMin + MaxClientExtra bytes.  The copy   *)
(* tasks an earlier session left behind run on beside the later session.   *)
(* The handshake code is DefaultConfig's, the empty one.                   *)
(***************************************************************************)
\* the extra bytes the client of session c sends at most
SerialExtra(c) == IF c = 1 THEN SrvClientExtra ELSE MaxClientExtra

SerialInit ==
    /\ cfg \in {k \in Configs : k.HandshakeCode = ""}
    /\ \E tls \in BOOLEAN :
         conn = [c \in Conns |->
                   IF c = 1
                   THEN NewSession(tls, "handshake", SerialExtra(1), SrvBackendBytes)
                   ELSE FreeConn]
    /\ nextConn = 2
    /\ metrics = NewMetrics
    /\ ServerInit

\* go s.proxy.HandleConnection(s.ctx, conn, isTLS) for the next connection
NextConnection ==
    /\ nextConn <= MaxConns
    /\ conn[nextConn - 1].pc = "returned"
    /\ \E tls \in BOOLEAN :
         conn' = [conn EXCEPT ![nextConn] =
                    NewSession(tls, "handshake", SerialExtra(nextConn), SrvBackendBytes)]
    /\ nextConn' = nextConn + 1
    /\ UNCHANGED <<metrics, cfg, srvVars>>

SerialNext ==
    \/ NextConnection
    \/ \E c \in Conns : HandleConnection(c)

SerialSpec == SerialInit /\ [][SerialNext]_vars

(***************************************************************************)
(* C17: with an empty handshake code performHandshake writes the same      *)
(* bytes in every invocation and for every connection: the literal         *)
(* WebSocket upgrade response.  They depend neither on what the client     *)
(* sends, of which nothing has been read, nor on an earlier connection.    *)
(***************************************************************************)
C17_DefaultHandshakeConstant ==
    cfg.HandshakeCode = "" =>
      /\ \A c \in Conns :
           /\ Has(conn[c].ev, "handshake") =>
                 /\ conn[c].toClient # <<>>
                 /\ conn[c].toClient[1] =
                      "HTTP/1.1 101 Switching Protocols\r\nUpgrade: websocket\r\nConnection: Upgrade\r\nSec-WebSocket-Accept: SjHtBVMgyBRvoUUIjz1rGj0nK0g=\r\n\r\n"
           /\ BeforePayload(c) =>
                 /\ conn[c].clientIn = ClientSends(conn[c].isTLS, SerialExtra(c))
                 /\ conn[c].discarded = <<>>
                 /\ conn[c].cp["dst_to_src"].rd = <<>>
      /\ \A c1, c2 \in Conns :
           (Has(conn[c1].ev, "handshake") /\ Has(conn[c2].ev, "handshake"))
             => conn[c1].toClient[1] = conn[c2].toClient[1]

\* a TLS connection has been relayed and has returned; a plaintext
\* connection after it, whose client sends more, has got the same response
C17_Witness ==
    /\ cfg.HandshakeCode = ""
    /\ conn[1].isTLS /\ ~conn[2].isTLS
    /\ conn[1].pc = "returned" /\ Has(conn[1].ev, "relay_return")
    /\ Len(conn[1].toClient) > 1
    /\ conn[2].pc = "dial"
    /\ Len(conn[2].clientIn) > discardMin + SrvClientExtra
    /\ conn[2].toClient = <<conn[1].toClient[1]>>

(***************************************************************************)
(* C18: setting the cancellation signal leaves every session as it is, its *)
(* copy tasks and its sockets included, and streamConnections returns only *)
(* when one of its copy tasks has ended, on EOF or on a failed read or     *)
(* write.                                                                  *)
(***************************************************************************)
C18_CancelLeavesRelays ==
    [][/\ ctxDone' # ctxDone => (conn' = conn /\ metrics' = metrics)
       /\ \A c \in Conns :
            (Relaying(c) /\ conn'[c].pc # "wait") =>
              /\ \E d \in Dirs : /\ conn[c].cp[d].pc = "done"
                                 /\ conn[c].cp[d].res \in {"nil", "err"}
              /\ conn'[c].ev = conn[c].ev \o <<"relay_return", "RecordConnectionDuration">>
       /\ \A c \in Conns :
            (Relaying(c) /\ ctxDone) =>
              (ENABLED StreamReturn(c) <=> conn[c].errChan # <<>>)]_vars

\* the signal is set and the accept loops have exited while a relay, its
\* sockets open, holds a chunk from the backend that it goes on to deliver
C18_Witness ==
    /\ ctxDone
    /\ \A l \in Listeners : Spawned(l) => LoopExited(l)
    /\ \E c \in Conns :
         /\ Relaying(c)
         /\ conn[c].clientSock = "open" /\ conn[c].destSock = "open"
         /\ conn[c].cp["src_to_dst"].pc = "write"
         /\ conn[c].cp["src_to_dst"].buf # <<>>
         /\ conn[c].cp["dst_to_src"].pc = "read"
         /\ ENABLED CopyWrite(c, "src_to_dst")

(***************************************************************************)
(* C19: a failure of the metrics HTTP listener is only logged.  The step   *)
(* in which it fails neither sets the cancellation signal nor enters Stop  *)
(* nor sends on serverErrChan, and it leaves the listeners and sessions as *)
(* they are; as long as no shutdown signal has arrived and no primary      *)
(* listener has failed, the signal stays unset and the accept loops run.   *)
(***************************************************************************)
C19_MetricsFailureOnlyLogged ==
    /\ [][(metricsSrv' = "failed" /\ metricsSrv # "failed") =>
            /\ ctxDone' = ctxDone
            /\ watcher' = watcher /\ sig' = sig
            /\ serverErrChan' = serverErrChan
            /\ lis' = lis /\ conn' = conn]_vars
    /\ []((/\ metricsSrv = "failed"
           /\ sig = "wait_sig"
           /\ \A l \in Listeners : lis[l].err = "none") =>
            /\ ~ctxDone
            /\ ~StopEntered
            /\ watcher = "recv"
            /\ serverErrChan = <<>>
            /\ \A l \in Listeners :
                 Spawned(l) => lis[l].pc \in {"listen", "select", "accept"})

\* the metrics listener has failed; the signal is unset, the plaintext loop
\* is in Accept and a connection it accepted is being relayed
C19_Witness ==
    /\ metricsSrv = "failed"
    /\ ~ctxDone
    /\ ~StopEntered
    /\ lis["http"].pc = "accept"
    /\ lis["http"].sock = "open"
    /\ \E c \in Conns : ~conn[c].isTLS /\ Relaying(c)

(***************************************************************************)
(* C20: what the proxy writes to the client is the handshake response,     *)
(* once, and after it bytes of the backend, in the backend's order.  On    *)
(* the failure paths (handshake, dial, payload discard, a failed read or   *)
(* write of the relay) nothing else is written before the socket is        *)
(* closed.                                                                 *)
(***************************************************************************)
C20_OnlyHandshakeAndBackendBytes ==
    \A c \in Conns :
      LET e == conn[c].ev
          w == conn[c].toClient
      IN
      /\ \A i \in DOMAIN w :
            IF i = 1 THEN w[i] = HandshakeResponse(cfg.HandshakeCode)
                     ELSE w[i] = BackendByte(i - 1)
      /\ Len(w) <= 1 + MaxBackendBytes
      /\ Count(e, {"handshake"}) <= 1
      /\ ~Has(e, "handshake") => w = <<>>
      /\ ~Has(e, "relay_start") => Len(w) <= 1
      /\ (Has(e, "dial_failed") \/ Has(e, "discard_failed")) =>
            w = <<HandshakeResponse(cfg.HandshakeCode)>>
      /\ conn[c].pc = "returned" =>
            /\ conn[c].clientSock = "closed"
            /\ ~ENABLED CopyWrite(c, "src_to_dst")

\* the relay ended on a failed copy from the client to the backend and
\* HandleConnection has returned: the client got the handshake response and
\* one byte of the backend
C20_Witness ==
    \E c \in Conns :
      /\ conn[c].pc = "returned"
      /\ conn[c].clientSock = "closed"
      /\ conn[c].cp["dst_to_src"].res = "err"
      /\ conn[c].cp["src_to_dst"].pc \in {"read", "write"}
      /\ conn[c].toClient = <<HandshakeResponse(cfg.HandshakeCode), BackendByte(1)>>

(***************************************************************************)
(* C21: with metrics disabled RecordConnection, RecordConnectionClosed,    *)
(* RecordBytesTransferred, RecordConnectionDuration and RecordError leave  *)
(* the collectors as they are, and none of them blocks: whether a step of  *)
(* a session that makes one of these calls can be taken depends on the     *)
(* session alone, so a session goes through the same steps with metrics    *)
(* enabled and disabled.                                                   *)
(***************************************************************************)
C21_DisabledMetricsNoOp ==
    /\ ~cfg.MetricsEnabled => metrics = NewMetrics
    /\ \A c \in Conns :
         /\ ENABLED HandshakeFail(c) <=> conn[c].pc = "handshake"
         /\ ENABLED DialOk(c) <=> conn[c].pc = "dial"
         /\ ENABLED DialFail(c) <=> conn[c].pc = "dial"
         /\ ENABLED DiscardFail(c) <=> conn[c].pc = "discard"
         /\ ENABLED StreamReturn(c) <=>
               (conn[c].pc = "wait" /\ conn[c].errChan # <<>>)
         /\ ENABLED CloseClient(c) <=> conn[c].pc = "closeClient"
         /\ \A d \in Dirs :
              ENABLED CopyRead(c, d) <=>
                /\ conn[c].cp[d].pc = "read"
                /\ SrcSock(c, d) = "open"
                /\ Incoming(c, d) # <<>>

\* with metrics disabled a session has relayed bytes in both directions and
\* HandleConnection has returned: every kind of call but RecordError was
\* made and the collectors are as NewMetrics left them
C21_Witness ==
    /\ ~cfg.MetricsEnabled
    /\ metrics = NewMetrics
    /\ \E c \in Conns :
         /\ conn[c].pc = "returned"
         /\ Has(conn[c].ev, "RecordConnection:success")
         /\ Has(conn[c].ev, "RecordConnectionDuration")
         /\ Has(conn[c].ev, "RecordConnectionClosed")
         /\ conn[c].toBackend # <<>>
         /\ Len(conn[c].toClient) > 1

(***************************************************************************)
(* C22: graceful shutdown: after a shutdown signal has been received the   *)
(* servers are stopped and runProxy returns, whether TLS and metrics are   *)
(* enabled or not.                                                         *)
(***************************************************************************)
C22_GracefulShutdown == (sig # "wait_sig") ~> (main = "returned")

(***************************************************************************)
(* HandleConnection on its own with the scheduling the Go runtime          *)
(* guarantees for a copy task whose socket this side has closed: a Read    *)
(* from a closed connection and a Write to one return an error at once.    *)
(* Reads and writes on open sockets wait for the peer and are not fair.    *)
(***************************************************************************)
ClosedRead(c, d) == SrcSock(c, d) = "closed" /\ CopyReadErr(c, d)
ClosedWrite(c, d) == DstSock(c, d) = "closed" /\ CopyWriteErr(c, d)

RelayFairness ==
    \A c \in Conns : \A d \in Dirs :
      /\ WF_vars(ClosedRead(c, d))
      /\ WF_vars(ClosedWrite(c, d))

ConnFairSpec == ConnInit /\ [][ConnNext]_vars /\ RelayFairness

(***************************************************************************)
(* C23: the relay's result channel has capacity two, each copy task sends  *)
(* one result and streamConnections receives one: a copy task that is      *)
(* about to send finds room in the channel, and once HandleConnection has  *)
(* closed both sockets and returned, the copy task that lost terminates.   *)
(***************************************************************************)
\* the results sent so far and the results received so far
ResultsSent(c) == Cardinality({d \in Dirs : conn[c].cp[d].pc = "done"})
ResultsReceived(c) == IF Has(conn[c].ev, "relay_return") THEN 1 ELSE 0

C23_ResultChannel ==
    /\ [](\A c \in Conns :
            /\ Len(conn[c].errChan) <= relayChanCap
            /\ Len(conn[c].errChan) = ResultsSent(c) - ResultsReceived(c)
            /\ Count(conn[c].ev, {"relay_return"}) <= 1
            /\ \A d \in Dirs :
                 /\ conn[c].cp[d].pc \in {"read", "write"} =>
                       Len(conn[c].errChan) < relayChanCap
                 /\ conn[c].cp[d].pc = "done" <=> conn[c].cp[d].res # "none")
    /\ \A c \in Conns :
         (conn[c].pc = "returned") ~>
            (\A d \in Dirs : conn[c].cp[d].pc \in {"none", "done"})

\* HandleConnection has returned on the backend's EOF; the copy task from
\* the client, woken by the close, has ended with an error and its result
\* lies in the channel, which nobody receives from
C23_Witness ==
    \E c \in Conns :
      /\ conn[c].pc = "returned"
      /\ conn[c].clientSock = "closed" /\ conn[c].destSock = "closed"
      /\ conn[c].cp["src_to_dst"].res = "nil"
      /\ conn[c].cp["dst_to_src"].res = "err"
      /\ conn[c].cp["dst_to_src"].pc = "done"
      /\ Len(conn[c].errChan) = 1

(***************************************************************************)
(* C24: every error of a connection -- a failed handshake write, a failed  *)
(* dial, a failed payload discard and a failed copy in either direction of *)
(* the relay -- is reported once through RecordError for that connection.  *)
(***************************************************************************)
\* the errors that have occurred on connection c, and the RecordError calls
\* HandleConnection has made for it
ErrorsOccurred(c) ==
    Count(conn[c].ev, {"handshake_failed", "dial_failed", "discard_failed"})
    + Cardinality({d \in Dirs : conn[c].cp[d].res = "err"})
ErrorsReported(c) ==
    Count(conn[c].ev, {"RecordError:handshake", "RecordError:destination",
                       "RecordError:payload"})

C24_EveryErrorReported ==
    \A c \in Conns :
      conn[c].pc = "returned" => ErrorsReported(c) = ErrorsOccurred(c)

C26_MetricsBeforeClose ==
    \A c \in Conns :
      LET e == conn[c].ev IN
      Has(e, "relay_return") =>
        /\ Precedes(e, "RecordConnectionDuration", "close_dest")
        /\ Precedes(e, "RecordConnectionDuration", "close_client")
        /\ Precedes(e, "RecordConnectionClosed", "close_dest")
        /\ Precedes(e, "RecordConnectionClosed", "close_client")

(***************************************************************************)
(* C26 as the code has it: when a relay has completed the duration metric  *)
(* is recorded before either socket is closed; then the backend socket is  *)
(* closed, then the client socket, and the connection-closed metric is     *)
(* recorded after both.                                                    *)
(***************************************************************************)
C26_DurationCloseClosed ==
    \A c \in Conns :
      LET e == conn[c].ev IN
      Has(e, "relay_return") =>
        /\ Precedes(e, "relay_return", "RecordConnectionDuration")
        /\ Precedes(e, "RecordConnectionDuration", "close_dest")
        /\ Precedes(e, "close_dest", "close_client")
        /\ Precedes(e, "close_client", "RecordConnectionClosed")
        /\ Has(e, "RecordConnectionClosed") =>
              /\ conn[c].clientSock = "closed"
              /\ conn[c].destSock = "closed"
        /\ conn[c].pc = "returned" =>
              /\ SubSeq(e, Len(e) - 4, Len(e)) =
                   <<"relay_return", "RecordConnectionDuration", "close_dest",
                     "close_client", "RecordConnectionClosed">>
              /\ \A x \in {"RecordConnectionDuration", "close_dest",
                           "close_client", "RecordConnectionClosed"} :
                   Count(e, {x}) = 1

\* a relayed plaintext session has returned with the duration observed and
\* the active-connections gauge back at zero
C26_Witness ==
    \E c \in Conns :
      /\ conn[c].pc = "returned"
      /\ Has(conn[c].ev, "relay_return")
      /\ ~conn[c].isTLS
      /\ metrics.connectionDuration["http"] = 1
      /\ metrics.connectionsActive = 0
      /\ conn[c].cp["src_to_dst"].res = "nil"

(***************************************************************************)
(* The lifecycle of a primary listener: Starting until its listener is     *)
(* bound, Listening while its accept loop runs and the cancellation signal *)
(* is unset, ShuttingDown while the loop still runs with the signal set,   *)
(* Stopped when startHTTPServer / startTLSServer has returned.             *)
(***************************************************************************)
ListenerState(l) ==
    IF lis[l].pc \in {"none", "listen"} THEN "Starting"
    ELSE IF LoopExited(l) THEN "Stopped"
    ELSE IF ctxDone THEN "ShuttingDown"
    ELSE "Listening"

\* the place of a state on Starting -> Listening -> ShuttingDown -> Stopped
StateRank(s) ==
    CASE s = "Starting" -> 0
      [] s = "Listening" -> 1
      [] s = "ShuttingDown" -> 2
      [] s = "Stopped" -> 3

\* this step hands a connection to HandleConnection, or rejects one, and the
\* listener it came from
Accepting == nextConn' # nextConn
AcceptingListener == IF conn'[nextConn].isTLS THEN "tls" ELSE "http"

(***************************************************************************)
(* C27 as stated: each listener moves only along Starting -> Listening ->  *)
(* ShuttingDown -> Stopped, never back to Listening once shutdown has      *)
(* begun; it accepts connections only while Listening; Stopped is          *)
(* terminal.                                                               *)
(***************************************************************************)
C27_AcceptsOnlyWhileListening ==
    [][/\ \A l \in Listeners :
            /\ StateRank(ListenerState(l)') >= StateRank(ListenerState(l))
            /\ ListenerState(l) = "Stopped" => ListenerState(l)' = "Stopped"
       /\ Accepting => ListenerState(AcceptingListener) = "Listening"]_vars

(***************************************************************************)
(* C27 as the code has it: each listener moves only forward along          *)
(* Starting -> Listening -> ShuttingDown -> Stopped (a listener that fails *)
(* to bind goes from Starting to Stopped) and Stopped is terminal; it      *)
(* accepts a connection only while its loop is in Accept on an open        *)
(* listener, which is while Listening or, after the signal is set, while   *)
(* ShuttingDown until the shutdown goroutine has closed the listener.      *)
(***************************************************************************)
C27_ListenerLifecycle ==
    [][/\ \A l \in Listeners :
            /\ StateRank(ListenerState(l)') >= StateRank(ListenerState(l))
            /\ ListenerState(l) = "Stopped" =>
                  /\ ListenerState(l)' = "Stopped"
                  /\ lis'[l].sock = lis[l].sock
            /\ ListenerState(l)' = "Listening" =>
                  ListenerState(l) \in {"Starting", "Listening"}
       /\ Accepting =>
            /\ ListenerState(AcceptingListener) \in {"Listening", "ShuttingDown"}
            /\ lis[AcceptingListener].pc = "accept"
            /\ lis[AcceptingListener].sock = "open"
            /\ lis[AcceptingListener].closer = "wait"]_vars

\* both listeners have gone through their lifecycle and are Stopped, the
\* TLS listener after it handed a connection to HandleConnection
C27_Witness ==
    /\ cfg.TLSEnabled
    /\ \A l \in Listeners : ListenerState(l) = "Stopped" /\ lis[l].err = "ctx"
    /\ \E c \in Conns : conn[c].isTLS /\ conn[c].pc \notin {"free", "rejected"}

(***************************************************************************)
(* C28: once a primary listener is listening its accept loop exits only    *)
(* through the case of the select that finds the cancellation signal set.  *)
(* Whatever Accept returns -- a timeout, another error, a connection that  *)
(* cannot be configured, a connection -- and a failure to set the deadline *)
(* lead to the select of the next iteration, and with the signal set the   *)
(* select does not go on to Accept.                                        *)
(***************************************************************************)
\* the accept loop of l runs
InLoop(l) == lis[l].pc \in {"select", "accept"}

C28_LoopExitsOnlyOnCancel ==
    /\ [][\A l \in Listeners :
            /\ (InLoop(l) /\ ~InLoop(l)') =>
                  /\ ctxDone
                  /\ lis[l].pc = "select"
                  /\ lis'[l].pc = "report" /\ lis'[l].err = "ctx"
            /\ lis[l].pc = "accept" => lis'[l].pc \in {"accept", "select"}]_vars
    /\ [](\A l \in Listeners :
            /\ lis[l].pc = "accept" =>
                  /\ ENABLED AcceptClosed(l) \/ ENABLED AcceptError(l)
                  /\ ~ENABLED LoopExit(l)
            /\ (lis[l].pc = "select" /\ ctxDone) =>
                  /\ ~ENABLED LoopAccept(l)
                  /\ ENABLED LoopExit(l))

\* the plaintext loop has closed a connection it could not configure and is
\* in Accept again, the signal unset
C28_Witness ==
    /\ ~ctxDone
    /\ lis["http"].pc = "accept"
    /\ lis["http"].sock = "open"
    /\ \E c \in Conns : conn[c].pc = "rejected" /\ conn[c].clientSock = "closed"

(***************************************************************************)
(* The accept loops beside an established relay: the server has started,   *)
(* both loops are at their select, and one connection, accepted earlier,   *)
(* is being relayed; its client has sent its payload and its backend has   *)
(* sent nothing yet.  The loops accept and the sessions run; nobody shuts  *)
(* the server down.  The handshake code is DefaultConfig's.                *)
(***************************************************************************)
\* a session in streamConnections, its two copy tasks waiting in Read
EstablishedRelay(tls) ==
    [NewSession(tls, "wait", SrvClientExtra, SrvBackendBytes) EXCEPT
       !.destSock = "open",
       !.toClient = <<HandshakeResponse(cfg.HandshakeCode)>>,
       !.discarded = IF tls /\ cfg.TLSMode = "stunnel" THEN <<>>
                     ELSE ClientStream(discardMin),
       !.clientIn = ClientStream(SrvClientExtra),
       !.cp = [d \in Dirs |-> [NoCopy EXCEPT !.pc = "read"]],
       !.ev = <<"handshake", "dial", "RecordConnection:success">>
              \o (IF tls /\ cfg.TLSMode = "stunnel" THEN <<>> ELSE <<"discard">>)
              \o <<"relay_start">>]

AdmitInit ==
    /\ cfg \in {k \in Configs : /\ k.HandshakeCode = ""
                                /\ ~k.TLSEnabled => k.TLSMode = "handshake"}
    /\ \E tls \in {FALSE, cfg.TLSEnabled} :
         /\ conn = [c \in Conns |->
                      IF c = MaxConns THEN EstablishedRelay(tls) ELSE FreeConn]
         /\ metrics = RecordConnection(NewMetrics,
                                       IF tls THEN "tls" ELSE "http", "success")
    /\ nextConn = 1
    /\ ctxDone = FALSE
    /\ lis = [l \in Listeners |->
                IF Spawned(l)
                THEN [pc |-> "select", sock |-> "open", closer |-> "wait",
                      err |-> "none"]
                ELSE NoListener]
    /\ metricsSrv = IF cfg.MetricsEnabled THEN "serving" ELSE "none"
    /\ wg = LiveInWaitGroup
    /\ serverErrChan = <<>>
    /\ watcher = "recv"
    /\ main = "wait_ctx"
    /\ sig = "wait_sig"
    /\ mainCtxDone = FALSE

AdmitNext ==
    \/ AcceptConfigureFail
    \/ AcceptTimeout
    \/ SetDeadlineFail
    \/ \E l \in Listeners :
         \/ LoopAccept(l)
         \/ AcceptConn(l)
         \/ AcceptError(l)
    \/ \E c \in Conns : HandleConnection(c)

AdmitSpec == AdmitInit /\ [][AdmitNext]_vars

(***************************************************************************)
(* C29: there is no admission control.  A loop at its select goes on to    *)
(* Accept, and a connection that Accept returns is handed to a             *)
(* HandleConnection task of its own, however many sessions are active: the *)
(* number of sessions running at once can exceed MaxConnections.           *)
(***************************************************************************)
C29_NoAdmissionControl ==
    /\ [](\A l \in Listeners :
            /\ (lis[l].pc = "select" /\ lis[l].sock = "open" /\ ~ctxDone) =>
                  ENABLED LoopAccept(l)
            /\ (lis[l].pc = "accept" /\ lis[l].sock = "open"
                  /\ nextConn <= MaxAccepts) =>
                  ENABLED AcceptConn(l))
    /\ [][Accepting =>
            /\ conn[nextConn].pc = "free"
            /\ conn'[nextConn].pc \in {"handshake", "rejected"}
            /\ conn'[nextConn].pc = "rejected" => AcceptingListener = "http"
            /\ \A c \in Conns \ {nextConn} : conn'[c] = conn[c]]_vars

\* two sessions are being relayed at once with max_connections = 1
C29_Witness ==
    /\ ActiveSessions > cfg.MaxConnections
    /\ \A c \in Conns : Relaying(c)
    /\ conn[1].isTLS /\ ~conn[MaxConns].isTLS

(***************************************************************************)
(* C30: HandleConnection records one RecordConnection status for a         *)
(* connection, and the status is success if and only if the backend dial   *)
(* succeeded: a connection whose payload discard fails after a successful  *)
(* dial stays counted as a success although no relay ran.                  *)
(***************************************************************************)
C30_OneStatusPerConnection ==
    /\ \A c \in Conns :
         LET e == conn[c].ev
             statuses == Count(e, {"RecordConnection:success", "RecordConnection:failed"})
         IN
         /\ statuses <= 1
         /\ Returning(c) => statuses = 1
         /\ Has(e, "RecordConnection:success") <=> Has(e, "dial")
         /\ Has(e, "RecordConnection:failed") <=>
               (Has(e, "handshake_failed") \/ Has(e, "dial_failed"))
         /\ Has(e, "discard_failed") =>
               /\ Has(e, "RecordConnection:success")
               /\ ~Has(e, "RecordConnection:failed")
               /\ ~Has(e, "relay_start")
    /\ \A t \in ConnTypes : \A st \in Statuses :
         metrics.connectionsTotal[<<t, st>>] =
           IF cfg.MetricsEnabled
           THEN Cardinality({c \in Conns :
                   /\ conn[c].pc # "free"
                   /\ connType(c) = t
                   /\ Has(conn[c].ev, "RecordConnection:" \o st)})
           ELSE 0

\* a TLS connection in handshake mode whose payload discard failed has
\* returned: it is counted once, as a success
C30_Witness ==
    \E c \in Conns :
      /\ conn[c].pc = "returned"
      /\ conn[c].isTLS
      /\ Has(conn[c].ev, "discard_failed")
      /\ metrics.connectionsTotal[<<"tls", "success">>] = 1
      /\ metrics.connectionsTotal[<<"tls", "failed">>] = 0
      /\ metrics.errorsTotal["payload"] = 1

(***************************************************************************)
(* The server and runProxy with the sessions left where the accept loops   *)
(* put them: a step of HandleConnection changes no variable of the server  *)
(* or of runProxy, so what the goroutines of Start, Stop and runProxy do   *)
(* is the same with and without the sessions' steps.                       *)
(***************************************************************************)
ServerNext == Server \/ RunProxy

ServerFairSpec == Init /\ [][ServerNext]_vars /\ Fairness

(***************************************************************************)
(* Reading serverErrChan.                                                  *)
(***************************************************************************)
\* the listener goroutines that have sent their error
ErrorsSent == Cardinality({l \in Listeners : lis[l].pc = "done"})
\* the errors the goroutine of Start has received
ErrorsReceived == IF watcher \in {"stop_wait", "done"} THEN 1 ELSE 0

(***************************************************************************)
(* C31: serverErrChan has capacity two, only the (at most two) listener    *)
(* goroutines send on it and each sends at most once, so a listener        *)
(* goroutine that has an error to report never blocks on the send and      *)
(* reaches s.wg.Done(), although the goroutine of Start receives the       *)
(* first error only.                                                       *)
(***************************************************************************)
C31_ReportNeverBlocks ==
    /\ [](/\ Len(serverErrChan) <= serverErrChanCap
          /\ \A i \in 1..Len(serverErrChan) : serverErrChan[i].from \in Listeners
          /\ ErrorsSent <= Cardinality({l \in Listeners : Spawned(l)})
          /\ Len(serverErrChan) + ErrorsReceived = ErrorsSent
          /\ \A l \in Listeners : lis[l].pc = "report" => ENABLED ReportErr(l))
    /\ [][/\ \A l \in Listeners : lis[l].pc = "done" => lis'[l].pc = "done"
          /\ watcher # "recv" => Len(serverErrChan') >= Len(serverErrChan)]_vars
    /\ \A l \in Listeners : (lis[l].pc = "report") ~> (lis[l].pc = "done")

\* both listener goroutines have sent their error and reached s.wg.Done();
\* Stop has returned to the goroutine of Start, which received the first
\* error, and the second error is still in the channel
C31_Witness ==
    /\ \A l \in Listeners : lis[l].pc = "done"
    /\ watcher = "done"
    /\ Len(serverErrChan) = 1
    /\ wg = 0

\* the metrics goroutine of Start is not running: it was never started or
\* StartMetricsServer has returned
MetricsReturned == main # "start" /\ metricsSrv \in {"none", "failed"}

(***************************************************************************)
(* C32: Stop may be invoked more than once and concurrently.  It is on     *)
(* every shutdown by signal: the accept loop returns the context's error,  *)
(* which is sent on serverErrChan, and the goroutine of Start invokes Stop *)
(* again.  The second invocation finds the context cancelled and changes   *)
(* nothing; the two calls wait for the same WaitGroup and do not block     *)
(* each other, so both return once the counted goroutines have returned;   *)
(* the state they leave is that of a single call: cancelled, accept loops  *)
(* stopped.                                                                *)
(***************************************************************************)
C32_StopIdempotent ==
    /\ [][/\ ctxDone => ctxDone'
          /\ (ctxDone /\ (sig' # sig \/ (watcher # "none" /\ watcher' # watcher))) =>
                /\ lis' = lis /\ wg' = wg /\ metricsSrv' = metricsSrv
                /\ conn' = conn /\ metrics' = metrics]_vars
    /\ []((sig = "stop_wait" /\ watcher = "stop_wait") =>
             /\ ctxDone
             /\ ENABLED SigStopReturn <=> ENABLED WatcherStopReturn
             /\ LiveInWaitGroup = 0 => ENABLED SigStopReturn)
    /\ []((sig = "done" /\ watcher = "done") =>
             /\ ctxDone
             /\ \A l \in Listeners : Spawned(l) => lis[l].pc = "done")
    /\ (sig # "wait_sig") ~> (watcher \in {"stop_wait", "done"})
    /\ (sig = "stop_wait" /\ watcher = "stop_wait" /\ MetricsReturned)
          ~> (sig = "done" /\ watcher = "done")

\* the signal goroutine is in Stop; the plaintext loop has returned the
\* context's error, the goroutine of Start has received it and is in Stop
\* too, and nothing is left for either call to wait for
C32_Witness ==
    /\ sig = "stop_wait"
    /\ watcher = "stop_wait"
    /\ ~cfg.TLSEnabled
    /\ lis["http"].err = "ctx"
    /\ lis["http"].pc = "done"
    /\ serverErrChan = <<>>
    /\ wg = 0

\* no listener goroutine of Start is running and no listener is open
NoListenerRunning ==
    \A l \in Listeners : lis[l].pc \in {"none", "done"} /\ lis[l].sock # "open"

====
